---- MODULE Spec2Model ----
(***************************************************************************)
(* Model of the lead-intake service in src/main.py: the POST /submit       *)
(* handler, its helpers and the external collaborators it calls (the       *)
(* leads and lead_images tables, the storage bucket and the SMTP relay).   *)
(*                                                                         *)
(* Strings are sequences of one-character strings, so that strip(),        *)
(* lower() and the regular expressions are computed, not assumed.          *)
(* A storage path "<lead_id>/<token><ext>" is the tuple                    *)
(* <<lead_id, token, ext>>.  The handler is split at its awaits.           *)
(* Not modelled: design_choice, whatsapp_prefill and original_filename     *)
(* (copied into the rows, decide nothing) and the text of the email.       *)
(***************************************************************************)
EXTENDS Integers, Sequences, FiniteSets, TLC

\* ------------------------------------------------------------------------
\* Bounds of the model
\* ------------------------------------------------------------------------
\* Largest number of file parts ("images") and of text parts ("details")
\* in one request.
MaxImages == 2

\* ------------------------------------------------------------------------
\* Config (ENV)
\* ------------------------------------------------------------------------
MAX_IMAGE_MB == 5

MAX_IMAGE_BYTES == MAX_IMAGE_MB * 1024 * 1024

SUPABASE_BUCKET == <<"l","e","a","d","-","i","m","a","g","e","s">>

JPEG == <<"i","m","a","g","e","/","j","p","e","g">>

PNG == <<"i","m","a","g","e","/","p","n","g">>

WEBP == <<"i","m","a","g","e","/","w","e","b","p">>

GIF == <<"i","m","a","g","e","/","g","i","f">>

ALLOWED_IMAGE_TYPES == {JPEG, PNG, WEBP}

\* ALLOWED_IMAGE_TYPES[ct]
Ext(ct) ==
    CASE ct = JPEG -> ".jpg"
      [] ct = PNG -> ".png"
      [] ct = WEBP -> ".webp"

\* ------------------------------------------------------------------------
\* Helpers
\* ------------------------------------------------------------------------
Whitespace == {" ", "\t", "\n"}

Digits == {"0", "1", "2", "3", "4", "5", "6", "7", "8", "9"}

Upper == <<"A","B","C","D","E","F","G","H","I","J","K","L","M",
           "N","O","P","Q","R","S","T","U","V","W","X","Y","Z","Í">>

Lower == <<"a","b","c","d","e","f","g","h","i","j","k","l","m",
           "n","o","p","q","r","s","t","u","v","w","x","y","z","í">>

LowerChar(c) ==
    IF \E k \in DOMAIN Upper : Upper[k] = c
    THEN Lower[CHOOSE k \in DOMAIN Upper : Upper[k] = c]
    ELSE c

\* str.lower()
lower(s) == [k \in 1..Len(s) |-> LowerChar(s[k])]

RECURSIVE lstrip(_)
lstrip(s) ==
    IF s = <<>> THEN s
    ELSE IF Head(s) \in Whitespace THEN lstrip(Tail(s)) ELSE s

RECURSIVE rstrip(_)
rstrip(s) ==
    IF s = <<>> THEN s
    ELSE IF s[Len(s)] \in Whitespace THEN rstrip(SubSeq(s, 1, Len(s) - 1)) ELSE s

\* str.strip()
strip(s) == rstrip(lstrip(s))

\* re.match(r"^[^@\s]+@[^@\s]+\.[^@\s]+$", email.strip(), re.I)
_basic_email_ok(email) ==
    LET e == strip(email)
        Plain(a, b) == \A k \in a..b : e[k] \notin (Whitespace \cup {"@"})
    IN  \E at \in 1..Len(e) :
            /\ e[at] = "@"
            /\ at > 1
            /\ Plain(1, at - 1)
            /\ \E dot \in (at + 2)..(Len(e) - 1) :
                   /\ e[dot] = "."
                   /\ Plain(at + 1, Len(e))

PhoneChar(c) == c \in (Digits \cup Whitespace \cup {"+", "(", ")"})

\* Mutant of _clean_phone: the character class also keeps "-".
_clean_phoneKeepsDash(s) ==
    SelectSeq(strip(s), LAMBDA c : PhoneChar(c) \/ c = "-")

\* re.sub(r"[^\d\+\s\(\)]", "", s.strip())
_clean_phone(s) == SelectSeq(strip(s), PhoneChar)

TruthyTokens ==
    { <<"1">>, <<"t","r","u","e">>, <<"y","e","s">>, <<"s","i">>,
      <<"s","í">>, <<"y">> }

\* Mutant of _truthy: the value is not trimmed.
_truthyNoStrip(s) == lower(s) \in TruthyTokens

_truthy(s) == lower(strip(s)) \in TruthyTokens

_make_public_url(bucket, path) == <<"storage/v1/object/public", bucket, path>>

\* ------------------------------------------------------------------------
\* Requests: the inputs POST /submit is checked with
\* ------------------------------------------------------------------------
Names == { <<" ">>, <<" ","A","n","a">> }

Emails == { <<" ","a","@","x",".","c","o">>, <<"a","@","x">> }

Phones == { <<"+","5","7"," ","3","-","0">>, <<"n","/","a">> }

Consoles == { <<"P","S","5"," ">>, <<" ">> }

Flags == { <<"n","o">>, <<" ","S","Í">> }

ContentTypes == { <<" ","I","m","a","g","e","/","P","N","G">>, GIF }

Sizes == {0, 1, MAX_IMAGE_BYTES, MAX_IMAGE_BYTES + 1}

DetailTexts == { <<" ">>, <<"o","k"," ">> }

\* An UploadFile: its declared content type and the length of its content.
UploadFiles == [content_type : ContentTypes, size : Sizes]

SeqsUpTo(S, n) == UNION { [1..k -> S] : k \in 0..n }

Forms ==
    [ name : Names, email : Emails, whatsapp : Phones, console : Consoles,
      has_design : Flags,
      details : SeqsUpTo(DetailTexts, MaxImages),
      images : SeqsUpTo(UploadFiles, MaxImages) ]

\* The forms the helpers _truthy and _clean_phone are checked with: all
\* texts up to MaxFieldLen characters over a small alphabet (and some longer
\* ones) as has_design or as whatsapp of an otherwise valid custom-design
\* form with one image.
MaxFieldLen == 3

FlagChars == {" ", "1", "y", "Y", "e", "s", "S", "i", "í", "Í"}

LongFlags ==
    { <<"t","r","u","e">>, <<" ","T","r","U","E","\t">>, <<"t","r","u","e","s">>,
      <<"f","a","l","s","e">>, <<"n","o">>, <<"0">>, <<"\n","Y","e","S"," ">>,
      <<"y","e","s","!">>, <<"s"," ","i">>, <<"o","n">> }

PhoneChars == {"1", "+", "(", ")", " ", "-", "a"}

LongPhones ==
    { <<"+","5","7"," ","(","3","0","0",")"," ","1","2","-","3","4">>,
      <<" ","t","e","l",":"," ","9"," ">>, <<"a"," ","\t"," ","b">> }

BaseForm ==
    [ name |-> <<" ","A","n","a">>, email |-> <<" ","a","@","x",".","c","o">>,
      whatsapp |-> <<"+","5","7"," ","3","-","0">>, console |-> <<"P","S","5"," ">>,
      has_design |-> <<"y","e","s">>,
      details |-> << <<"o","k"," ">> >>,
      images |-> << [content_type |-> PNG, size |-> 1] >> ]

InputForms ==
    { [BaseForm EXCEPT !.has_design = s] :
          s \in SeqsUpTo(FlagChars, MaxFieldLen) \cup LongFlags }
    \cup
    { [BaseForm EXCEPT !.whatsapp = s] :
          s \in SeqsUpTo(PhoneChars, MaxFieldLen) \cup LongPhones }

\* ------------------------------------------------------------------------
\* State
\* ------------------------------------------------------------------------
VARIABLES
    form,           \* per request: the multipart form as received
    pc,             \* per request: the handler's position
    resp,           \* per request: the HTTP response (status 0: none yet)
    lead_id,        \* per request: lead["id"] (0: not assigned)
    idx,            \* per request: the loop index over images (1-based)
    path,           \* per request: the local path of the loop body
    uploaded_rows,  \* per request: the list uploaded_rows
    leads,          \* table leads of the store
    lead_images,    \* table lead_images of the store
    blobs,          \* objects of the bucket: storage path -> object
    outbox,         \* messages the SMTP relay accepted
    calls,          \* per request: the external calls made so far, in order
    nextId,         \* the store's id sequence for leads
    nextToken,      \* stands for uuid.uuid4(): a token never handed out before
    state,          \* the page: the object state of the wizard
    controls,       \* the page: the step whose controls are displayed
    posted          \* the page: the body of the last fetch to /submit, if any

\* The variables of the handler and of the services it calls.
server == << form, pc, resp, lead_id, idx, path, uploaded_rows, leads,
             lead_images, blobs, outbox, calls, nextId, nextToken >>

\* The variables of the page in the browser.
client == << state, controls, posted >>

vars == << server, client >>

store == << leads, lead_images, blobs >>

Requests == DOMAIN pc

NoResponse == [status |-> 0, detail |-> "", lead_id |-> 0]

\* The page after start(): nothing collected, the name is asked for.
InitPage ==
    /\ state = [ name |-> <<>>, email |-> <<>>, whatsapp |-> <<>>,
                 console |-> <<>>, design_choice |-> "", has_design |-> "no",
                 gallery_page |-> 0, custom_blocks |-> <<>> ]
    /\ controls = "stepName"
    /\ posted = <<>>

InitWith(reqs, forms) ==
    /\ InitPage
    /\ form \in [reqs -> forms]
    /\ pc = [r \in reqs |-> "received"]
    /\ resp = [r \in reqs |-> NoResponse]
    /\ lead_id = [r \in reqs |-> 0]
    /\ idx = [r \in reqs |-> 1]
    /\ path = [r \in reqs |-> << 0, 0, "" >>]
    /\ uploaded_rows = [r \in reqs |-> <<>>]
    /\ leads = {}
    /\ lead_images = {}
    /\ blobs = {}
    /\ outbox = <<>>
    /\ calls = [r \in reqs |-> <<>>]
    /\ nextId = 1
    /\ nextToken = 1

Init == InitWith({1}, Forms)

\* ------------------------------------------------------------------------
\* submit: the values the handler computes from the form
\* ------------------------------------------------------------------------
has_design_bool(f) == _truthy(f.has_design)

\* Mutant of ValidationError: the check "at least 1 image" is missing.
ValidationErrorNoImageCheck(f) ==
    IF strip(f.name) = <<>> THEN "Nombre es obligatorio."
    ELSE IF ~_basic_email_ok(strip(f.email)) THEN "Correo inválido."
    ELSE IF _clean_phone(f.whatsapp) = <<>> THEN "WhatsApp es obligatorio."
    ELSE IF strip(f.console) = <<>> THEN "Consola es obligatoria."
    ELSE IF ~has_design_bool(f) THEN ""
    ELSE IF Len(f.details) # Len(f.images)
         THEN "Cada imagen debe tener su detalle (mismo número)."
    ELSE IF \E k \in 1..Len(f.details) : strip(f.details[k]) = <<>>
         THEN "Cada imagen debe tener detalles (no vacío)."
    ELSE ""

\* Mutant of ValidationError: the check for blank details is missing.
ValidationErrorNoBlankCheck(f) ==
    IF strip(f.name) = <<>> THEN "Nombre es obligatorio."
    ELSE IF ~_basic_email_ok(strip(f.email)) THEN "Correo inválido."
    ELSE IF _clean_phone(f.whatsapp) = <<>> THEN "WhatsApp es obligatorio."
    ELSE IF strip(f.console) = <<>> THEN "Consola es obligatoria."
    ELSE IF ~has_design_bool(f) THEN ""
    ELSE IF Len(f.images) < 1 THEN "Debes subir al menos 1 imagen."
    ELSE IF Len(f.details) # Len(f.images)
         THEN "Cada imagen debe tener su detalle (mismo número)."
    ELSE ""

\* Mutant of ValidationError: the email is checked before the name.
ValidationErrorEmailFirst(f) ==
    IF ~_basic_email_ok(strip(f.email)) THEN "Correo inválido."
    ELSE IF strip(f.name) = <<>> THEN "Nombre es obligatorio."
    ELSE IF _clean_phone(f.whatsapp) = <<>> THEN "WhatsApp es obligatorio."
    ELSE IF strip(f.console) = <<>> THEN "Consola es obligatoria."
    ELSE IF ~has_design_bool(f) THEN ""
    ELSE IF Len(f.images) < 1 THEN "Debes subir al menos 1 imagen."
    ELSE IF Len(f.details) # Len(f.images)
         THEN "Cada imagen debe tener su detalle (mismo número)."
    ELSE IF \E k \in 1..Len(f.details) : strip(f.details[k]) = <<>>
         THEN "Cada imagen debe tener detalles (no vacío)."
    ELSE ""

\* Mutant of ValidationError: the checks on images and details are made
\* whatever has_design says.
ValidationErrorFlagIgnored(f) ==
    IF strip(f.name) = <<>> THEN "Nombre es obligatorio."
    ELSE IF ~_basic_email_ok(strip(f.email)) THEN "Correo inválido."
    ELSE IF _clean_phone(f.whatsapp) = <<>> THEN "WhatsApp es obligatorio."
    ELSE IF strip(f.console) = <<>> THEN "Consola es obligatoria."
    ELSE IF Len(f.images) < 1 /\ has_design_bool(f)
         THEN "Debes subir al menos 1 imagen."
    ELSE IF Len(f.details) # Len(f.images)
         THEN "Cada imagen debe tener su detalle (mismo número)."
    ELSE IF \E k \in 1..Len(f.details) : strip(f.details[k]) = <<>>
         THEN "Cada imagen debe tener detalles (no vacío)."
    ELSE ""

\* The first HTTPException(400) of the checks before the lead insert, or ""
\* when the form passes them.
ValidationError(f) ==
    IF strip(f.name) = <<>> THEN "Nombre es obligatorio."
    ELSE IF ~_basic_email_ok(strip(f.email)) THEN "Correo inválido."
    ELSE IF _clean_phone(f.whatsapp) = <<>> THEN "WhatsApp es obligatorio."
    ELSE IF strip(f.console) = <<>> THEN "Consola es obligatoria."
    ELSE IF ~has_design_bool(f) THEN ""
    ELSE IF Len(f.images) < 1 THEN "Debes subir al menos 1 imagen."
    ELSE IF Len(f.details) # Len(f.images)
         THEN "Cada imagen debe tener su detalle (mismo número)."
    ELSE IF \E k \in 1..Len(f.details) : strip(f.details[k]) = <<>>
         THEN "Cada imagen debe tener detalles (no vacío)."
    ELSE ""

\* ct = (up.content_type or "").lower().strip()
ContentTypeOf(up) == strip(lower(up.content_type))

\* Mutant of MediaError: the size is checked before the content type.
MediaErrorSizeFirst(up) ==
    IF up.size <= 0 THEN "Una imagen viene vacía."
    ELSE IF up.size > MAX_IMAGE_BYTES THEN "Imagen supera el máximo permitido."
    ELSE IF ContentTypeOf(up) \notin ALLOWED_IMAGE_TYPES
    THEN "Tipo de imagen no permitido."
    ELSE ""

\* Mutant of MediaError: the maximum is exclusive (>= instead of >).
MediaErrorExclusiveMax(up) ==
    IF ContentTypeOf(up) \notin ALLOWED_IMAGE_TYPES
    THEN "Tipo de imagen no permitido."
    ELSE IF up.size <= 0 THEN "Una imagen viene vacía."
    ELSE IF up.size >= MAX_IMAGE_BYTES THEN "Imagen supera el máximo permitido."
    ELSE ""

\* The HTTPException(400) of the checks on one image inside the loop, or ""
\* when the image is accepted.
MediaError(up) ==
    IF ContentTypeOf(up) \notin ALLOWED_IMAGE_TYPES
    THEN "Tipo de imagen no permitido."
    ELSE IF up.size <= 0 THEN "Una imagen viene vacía."
    ELSE IF up.size > MAX_IMAGE_BYTES THEN "Imagen supera el máximo permitido."
    ELSE ""

lead_data(f) ==
    [ name |-> strip(f.name), email |-> strip(f.email),
      whatsapp |-> _clean_phone(f.whatsapp), console |-> strip(f.console),
      has_design |-> has_design_bool(f) ]

\* ------------------------------------------------------------------------
\* submit: the steps of the handler
\* ------------------------------------------------------------------------
\* One external call of request r is recorded: the operation, the image it
\* is for (0: none) and whether it returned without raising.
Call(r, op, i, ok) ==
    calls' = [calls EXCEPT ![r] = Append(@, [op |-> op, idx |-> i, ok |-> ok])]

\* raise HTTPException(status, detail), or an exception FastAPI turns into 500
Raise(r, status, detail) ==
    /\ resp' = [resp EXCEPT ![r] = [status |-> status, detail |-> detail, lead_id |-> 0]]
    /\ pc' = [pc EXCEPT ![r] = "done"]

Goto(r, label) ==
    /\ pc' = [pc EXCEPT ![r] = label]
    /\ UNCHANGED resp

\* Lines 686-713: normalise and validate the fields.
Validate(r) ==
    /\ pc[r] = "received"
    /\ IF ValidationError(form[r]) # ""
       THEN Raise(r, 400, ValidationError(form[r]))
       ELSE Goto(r, "insert_lead")
    /\ UNCHANGED << client, form, path, lead_id, idx, uploaded_rows, leads,
                    lead_images, blobs, outbox, calls, nextId, nextToken >>

\* _sb_headers() raises RuntimeError when the store is not configured: no
\* request is sent, FastAPI answers 500.
InsertLeadNotConfigured(r) ==
    /\ pc[r] = "insert_lead"
    /\ Raise(r, 500, "Internal Server Error")
    /\ UNCHANGED << client, form, path, lead_id, idx, uploaded_rows, leads,
                    lead_images, blobs, outbox, calls, nextId, nextToken >>

\* Mutant of InsertLeadRejected: the error is swallowed and the handler
\* goes on without a lead.
InsertLeadRejectedIgnored(r) ==
    /\ pc[r] = "insert_lead"
    /\ Call(r, "insert_lead", 0, FALSE)
    /\ Goto(r, "ingest")
    /\ UNCHANGED << client, form, path, lead_id, idx, uploaded_rows, leads,
                    lead_images, blobs, outbox, nextId, nextToken >>

\* _insert_lead: the store answers with status >= 300 (nothing inserted).
InsertLeadRejected(r) ==
    /\ pc[r] = "insert_lead"
    /\ Call(r, "insert_lead", 0, FALSE)
    /\ Raise(r, 500, "Error insertando lead")
    /\ UNCHANGED << client, form, path, lead_id, idx, uploaded_rows, leads,
                    lead_images, blobs, outbox, nextId, nextToken >>

\* _insert_lead: the store answers 2xx with an empty list of rows; whether
\* it kept the row is the store's business.
InsertLeadNoRows(r) ==
    /\ pc[r] = "insert_lead"
    /\ Call(r, "insert_lead", 0, FALSE)
    /\ Raise(r, 500, "Supabase no devolvió el lead insertado.")
    /\ \/ UNCHANGED << leads, nextId >>
       \/ /\ leads' = leads \cup {[id |-> nextId] @@ lead_data(form[r])}
          /\ nextId' = nextId + 1
    /\ UNCHANGED << client, form, path, lead_id, idx, uploaded_rows,
                    lead_images, blobs, outbox, nextToken >>

\* Mutant of InsertLeadOk: lead_id is not the id of the inserted row.
InsertLeadOkWrongId(r) ==
    /\ pc[r] = "insert_lead"
    /\ Call(r, "insert_lead", 0, TRUE)
    /\ leads' = leads \cup {[id |-> nextId] @@ lead_data(form[r])}
    /\ nextId' = nextId + 1
    /\ lead_id' = [lead_id EXCEPT ![r] = nextId + 1]
    /\ Goto(r, "ingest")
    /\ UNCHANGED << client, form, path, idx, uploaded_rows, lead_images,
                    blobs, outbox, nextToken >>

\* _insert_lead: the store inserts the row and returns it; lead_id = lead["id"].
InsertLeadOk(r) ==
    /\ pc[r] = "insert_lead"
    /\ Call(r, "insert_lead", 0, TRUE)
    /\ leads' = leads \cup {[id |-> nextId] @@ lead_data(form[r])}
    /\ nextId' = nextId + 1
    /\ lead_id' = [lead_id EXCEPT ![r] = nextId]
    /\ Goto(r, "ingest")
    /\ UNCHANGED << client, form, path, idx, uploaded_rows, lead_images,
                    blobs, outbox, nextToken >>

\* Mutant of Ingest: the images are processed whatever has_design says.
IngestWithoutFlag(r) ==
    /\ pc[r] = "ingest"
    /\ IF idx[r] > Len(form[r].images)
       THEN Goto(r, "email")
       ELSE IF MediaError(form[r].images[idx[r]]) # ""
            THEN Raise(r, 400, MediaError(form[r].images[idx[r]]))
            ELSE Goto(r, "upload")
    /\ UNCHANGED << client, form, path, lead_id, idx, uploaded_rows, leads,
                    lead_images, blobs, outbox, calls, nextId, nextToken >>

\* Lines 731-745: the head of the loop over images and the checks on the
\* image at idx; without has_design, or after the last image, on to the email.
Ingest(r) ==
    /\ pc[r] = "ingest"
    /\ IF ~has_design_bool(form[r]) \/ idx[r] > Len(form[r].images)
       THEN Goto(r, "email")
       ELSE IF MediaError(form[r].images[idx[r]]) # ""
            THEN Raise(r, 400, MediaError(form[r].images[idx[r]]))
            ELSE Goto(r, "upload")
    /\ UNCHANGED << client, form, path, lead_id, idx, uploaded_rows, leads,
                    lead_images, blobs, outbox, calls, nextId, nextToken >>

\* path = f"{lead_id}/{uuid.uuid4().hex}{ext}"
StoragePath(r) ==
    << lead_id[r], nextToken, Ext(ContentTypeOf(form[r].images[idx[r]])) >>

\* Lines 750-751, _upload_to_storage: the bucket stores the object, or
\* answers with status >= 300 and stores nothing.
UploadOk(r) ==
    /\ pc[r] = "upload"
    /\ Call(r, "upload", idx[r], TRUE)
    /\ blobs' = blobs \cup
          {[ path |-> StoragePath(r),
             content_type |-> ContentTypeOf(form[r].images[idx[r]]),
             size |-> form[r].images[idx[r]].size ]}
    /\ path' = [path EXCEPT ![r] = StoragePath(r)]
    /\ nextToken' = nextToken + 1
    /\ Goto(r, "insert_image")
    /\ UNCHANGED << client, form, lead_id, idx, uploaded_rows, leads,
                    lead_images, outbox, nextId >>

\* Mutant of UploadRejected: the image is skipped and the loop continues.
UploadRejectedSkipped(r) ==
    /\ pc[r] = "upload"
    /\ Call(r, "upload", idx[r], FALSE)
    /\ path' = [path EXCEPT ![r] = StoragePath(r)]
    /\ nextToken' = nextToken + 1
    /\ idx' = [idx EXCEPT ![r] = @ + 1]
    /\ Goto(r, "ingest")
    /\ UNCHANGED << client, form, lead_id, uploaded_rows, leads, lead_images,
                    blobs, outbox, nextId >>

\* Mutant of UploadRejected: the upload is tried again after a failure.
UploadRejectedRetried(r) ==
    /\ pc[r] = "upload"
    /\ Call(r, "upload", idx[r], FALSE)
    /\ path' = [path EXCEPT ![r] = StoragePath(r)]
    /\ nextToken' = nextToken + 1
    /\ Goto(r, "upload")
    /\ UNCHANGED << client, form, lead_id, idx, uploaded_rows, leads,
                    lead_images, blobs, outbox, nextId >>

UploadRejected(r) ==
    /\ pc[r] = "upload"
    /\ Call(r, "upload", idx[r], FALSE)
    /\ path' = [path EXCEPT ![r] = StoragePath(r)]
    /\ nextToken' = nextToken + 1
    /\ Raise(r, 500, "Error subiendo a Storage")
    /\ UNCHANGED << client, form, lead_id, idx, uploaded_rows, leads,
                    lead_images, blobs, outbox, nextId >>

\* Mutant of ImageRow: the row and its path do not carry the lead's id.
ImageRowWithoutLead(r) ==
    LET up == form[r].images[idx[r]]
        storage_path == << 0, path[r][2], path[r][3] >>
    IN  [ lead_id |-> 0,
          storage_bucket |-> SUPABASE_BUCKET,
          storage_path |-> storage_path,
          public_url |-> _make_public_url(SUPABASE_BUCKET, storage_path),
          content_type |-> ContentTypeOf(up),
          size_bytes |-> up.size,
          details |-> strip(form[r].details[idx[r]]) ]

\* Mutant of ImageRow: the lead id is taken from a variable shared by all
\* requests (the id of the lead inserted last), not from the request's own.
ImageRowSharedLead(r) ==
    LET up == form[r].images[idx[r]]
        storage_path == << nextId - 1, path[r][2], path[r][3] >>
    IN  [ lead_id |-> nextId - 1,
          storage_bucket |-> SUPABASE_BUCKET,
          storage_path |-> storage_path,
          public_url |-> _make_public_url(SUPABASE_BUCKET, storage_path),
          content_type |-> ContentTypeOf(up),
          size_bytes |-> up.size,
          details |-> strip(form[r].details[idx[r]]) ]

\* Mutant of ImageRow: the row's path is built anew, with another uuid, and
\* is not the path the upload used.
ImageRowFreshPath(r) ==
    LET up == form[r].images[idx[r]]
        storage_path == << lead_id[r], nextToken, path[r][3] >>
    IN  [ lead_id |-> lead_id[r],
          storage_bucket |-> SUPABASE_BUCKET,
          storage_path |-> storage_path,
          public_url |-> _make_public_url(SUPABASE_BUCKET, storage_path),
          content_type |-> ContentTypeOf(up),
          size_bytes |-> up.size,
          details |-> strip(form[r].details[idx[r]]) ]

\* Lines 753-764: the row of the image just uploaded, at the path the
\* upload used.
ImageRow(r) ==
    LET up == form[r].images[idx[r]]
    IN  [ lead_id |-> lead_id[r],
          storage_bucket |-> SUPABASE_BUCKET,
          storage_path |-> path[r],
          public_url |-> _make_public_url(SUPABASE_BUCKET, path[r]),
          content_type |-> ContentTypeOf(up),
          size_bytes |-> up.size,
          details |-> strip(form[r].details[idx[r]]) ]

\* Mutant of InsertImageOk: the loop is left after the first image (break).
InsertImageOkThenEmail(r) ==
    /\ pc[r] = "insert_image"
    /\ Call(r, "insert_lead_image", idx[r], TRUE)
    /\ lead_images' = lead_images \cup {ImageRow(r)}
    /\ uploaded_rows' = [uploaded_rows EXCEPT ![r] = Append(@, ImageRow(r))]
    /\ idx' = [idx EXCEPT ![r] = @ + 1]
    /\ Goto(r, "email")
    /\ UNCHANGED << client, form, path, lead_id, leads, blobs, outbox,
                    nextId, nextToken >>

\* Lines 765-766, _insert_lead_image: the row is inserted and appended to
\* uploaded_rows, or the store answers with status >= 300.
InsertImageOk(r) ==
    /\ pc[r] = "insert_image"
    /\ Call(r, "insert_lead_image", idx[r], TRUE)
    /\ lead_images' = lead_images \cup {ImageRow(r)}
    /\ uploaded_rows' = [uploaded_rows EXCEPT ![r] = Append(@, ImageRow(r))]
    /\ idx' = [idx EXCEPT ![r] = @ + 1]
    /\ Goto(r, "ingest")
    /\ UNCHANGED << client, form, path, lead_id, leads, blobs, outbox,
                    nextId, nextToken >>

\* Mutant of InsertImageRejected: the failure is skipped and the loop goes
\* on with the next image.
InsertImageRejectedSkipped(r) ==
    /\ pc[r] = "insert_image"
    /\ Call(r, "insert_lead_image", idx[r], FALSE)
    /\ idx' = [idx EXCEPT ![r] = @ + 1]
    /\ Goto(r, "ingest")
    /\ UNCHANGED << client, form, path, lead_id, uploaded_rows, leads,
                    lead_images, blobs, outbox, nextId, nextToken >>

InsertImageRejected(r) ==
    /\ pc[r] = "insert_image"
    /\ Call(r, "insert_lead_image", idx[r], FALSE)
    /\ Raise(r, 500, "Error insertando lead_image")
    /\ UNCHANGED << client, form, path, lead_id, idx, uploaded_rows, leads,
                    lead_images, blobs, outbox, nextId, nextToken >>

\* Lines 768-799: the email to the business, then the success response.
SendEmailOk(r) ==
    /\ pc[r] = "email"
    /\ Call(r, "send_email", 0, TRUE)
    /\ outbox' = Append(outbox, [ name |-> strip(form[r].name),
                                  console |-> strip(form[r].console),
                                  rows |-> uploaded_rows[r] ])
    /\ resp' = [resp EXCEPT ![r] = [status |-> 200, detail |-> "ok",
                                    lead_id |-> lead_id[r]]]
    /\ pc' = [pc EXCEPT ![r] = "done"]
    /\ UNCHANGED << client, form, path, lead_id, idx, uploaded_rows, leads,
                    lead_images, blobs, nextId, nextToken >>

\* Mutant of SendEmailFailed: the failure is swallowed and the handler
\* answers with the lead id.
SendEmailFailedSwallowed(r) ==
    /\ pc[r] = "email"
    /\ Call(r, "send_email", 0, FALSE)
    /\ resp' = [resp EXCEPT ![r] = [status |-> 200, detail |-> "ok",
                                    lead_id |-> lead_id[r]]]
    /\ pc' = [pc EXCEPT ![r] = "done"]
    /\ UNCHANGED << client, form, path, lead_id, idx, uploaded_rows, leads,
                    lead_images, blobs, outbox, nextId, nextToken >>

\* Mutant of SendEmailFailed: the failure rolls back what the request stored.
SendEmailFailedRollback(r) ==
    /\ pc[r] = "email"
    /\ Call(r, "send_email", 0, FALSE)
    /\ Raise(r, 500, "Lead guardado pero falló el correo")
    /\ leads' = {l \in leads : l.id # lead_id[r]}
    /\ lead_images' = {row \in lead_images : row.lead_id # lead_id[r]}
    /\ blobs' = {b \in blobs : b.path[1] # lead_id[r]}
    /\ UNCHANGED << client, form, path, lead_id, idx, uploaded_rows, outbox,
                    nextId, nextToken >>

\* _send_email_sync raises (SMTP_* missing, or the relay fails): the
\* handler turns it into HTTPException(500).
SendEmailFailed(r) ==
    /\ pc[r] = "email"
    /\ Call(r, "send_email", 0, FALSE)
    /\ Raise(r, 500, "Lead guardado pero falló el correo")
    /\ UNCHANGED << client, form, path, lead_id, idx, uploaded_rows, leads,
                    lead_images, blobs, outbox, nextId, nextToken >>

Next ==
    \/ \E r \in Requests : Validate(r)
    \/ \E r \in Requests : InsertLeadNotConfigured(r)
    \/ \E r \in Requests : InsertLeadRejected(r)
    \/ \E r \in Requests : InsertLeadNoRows(r)
    \/ \E r \in Requests : InsertLeadOk(r)
    \/ \E r \in Requests : Ingest(r)
    \/ \E r \in Requests : UploadOk(r)
    \/ \E r \in Requests : UploadRejected(r)
    \/ \E r \in Requests : InsertImageOk(r)
    \/ \E r \in Requests : InsertImageRejected(r)
    \/ \E r \in Requests : SendEmailOk(r)
    \/ \E r \in Requests : SendEmailFailed(r)

\* Two concurrent requests, each with one of a few forms: without design,
\* with one or two valid images, with an image of a type that is not
\* allowed, and with a blank name.
ConcForms ==
    { [BaseForm EXCEPT !.has_design = <<"n","o">>],
      BaseForm,
      [BaseForm EXCEPT
          !.details = << <<"o","k"," ">>, <<"o","k"," ">> >>,
          !.images = << [content_type |-> PNG, size |-> 1],
                        [content_type |-> JPEG, size |-> MAX_IMAGE_BYTES] >>],
      [BaseForm EXCEPT !.images = << [content_type |-> GIF, size |-> 1] >>],
      [BaseForm EXCEPT !.name = <<" ">>] }

InitConc == InitWith({1, 2}, ConcForms)

\* The steps of the two handlers interleave at their awaits.
SpecConc == InitConc /\ [][Next]_vars

\* ------------------------------------------------------------------------
\* Pricing/Combo resolver.  src/main.py has no combo catalog and submit has
\* no combo field (only the PRICES placeholder of the page); the resolver is
\* modelled from the specification: the catalog entries it names, the fixed
\* add-on amount, and the eligibility filter.
\* ------------------------------------------------------------------------
EXTRA_CONTROL_ADDON == 16000

\* eligible = {}: no restriction, the combo is for all consoles.
ComboCatalog ==
    { [id |-> "c1", price |-> 80000, eligible |-> {}],
      [id |-> "c6", price |-> 40000, eligible |-> {"PS5 Fat", "PS5 Slim"}] }

ComboConsoles ==
    { "PS4", "PS5", "PS5 Fat", "PS5 Slim", "XBOX", "Xbox One", "Xbox Series",
      "Switch", "Otra" }

ComboIds == { "c1", "c6", "c9" }

ComboOrders == [console : ComboConsoles, combo : ComboIds, extra : BOOLEAN]

\* Mutant of EligibleCombos: the eligibility restriction is not applied.
EligibleCombosUnfiltered(console) == ComboCatalog

\* The catalog filtered to the combos whose eligibility set is absent or
\* contains the console model.
EligibleCombos(console) ==
    { c \in ComboCatalog : c.eligible = {} \/ console \in c.eligible }

\* The order is priced: IneligibleCombo when the selected combo is not in
\* the filtered catalog, otherwise its price plus the add-on if selected.
ResolveCombo(r) ==
    /\ pc[r] = "received"
    /\ LET o == form[r]
           sel == { c \in EligibleCombos(o.console) : c.id = o.combo }
       IN  IF sel = {}
           THEN resp' = [resp EXCEPT ![r] =
                    [status |-> 400, detail |-> "IneligibleCombo",
                     lead_id |-> 0, total |-> 0]]
           ELSE resp' = [resp EXCEPT ![r] =
                    [status |-> 200, detail |-> "ok", lead_id |-> 0,
                     total |-> (CHOOSE c \in sel : TRUE).price
                                 + (IF o.extra THEN EXTRA_CONTROL_ADDON ELSE 0)]]
    /\ pc' = [pc EXCEPT ![r] = "done"]
    /\ UNCHANGED << client, form, path, lead_id, idx, uploaded_rows, leads,
                    lead_images, blobs, outbox, calls, nextId, nextToken >>

InitCombo == InitWith({1}, ComboOrders)

NextCombo == \E r \in Requests : ResolveCombo(r)

SpecCombo == InitCombo /\ [][NextCombo]_vars

\* ------------------------------------------------------------------------
\* The wizard of the page: one action per click handler.  What the visitor
\* types or selects is the input of the action.
\* ------------------------------------------------------------------------
\* String.prototype.trim
trim(s) == strip(s)

\* String.prototype.includes
includes(s, c) == \E k \in 1..Len(s) : s[k] = c

TypedNames == Names \cup { <<>> }

TypedEmails == Emails \cup { <<>>, <<"a"," ">> }

TypedPhones == Phones \cup { <<" ">> }

\* Values of <select id="selConsole">: no selection, a console, "other".
OtherConsole == <<"o","t","h","e","r">>

SelConsoleValues == { <<>>, <<"P","S","5">>, OtherConsole }

TypedConsoles == { <<" ">>, <<"W","i","i"," ">> }

TypedDetails == DetailTexts \cup { <<>> }

\* fileEl.files[0] of a block: no file chosen, or the file.
NoFile == [content_type |-> <<>>, size |-> 0]

ChosenFiles == { [content_type |-> PNG, size |-> 1] }

\* setControls of the step entered; the state is the one the handler set.
Show(step) == controls' = step

\* stepName, btnNext.onclick
stepNameNext(typed) ==
    /\ controls = "stepName"
    /\ LET v == trim(typed)
       IN  IF v = <<>>
           THEN UNCHANGED << state, controls >>
           ELSE /\ state' = [state EXCEPT !.name = v]
                /\ Show("stepEmail")
    /\ UNCHANGED << posted, server >>

\* stepEmail, btnNext.onclick
stepEmailNext(typed) ==
    /\ controls = "stepEmail"
    /\ LET v == trim(typed)
       IN  IF v = <<>> \/ ~includes(v, "@")
           THEN UNCHANGED << state, controls >>
           ELSE /\ state' = [state EXCEPT !.email = v]
                /\ Show("stepWhatsApp")
    /\ UNCHANGED << posted, server >>

\* stepWhatsApp, btnNext.onclick
stepWhatsAppNext(typed) ==
    /\ controls = "stepWhatsApp"
    /\ LET v == trim(typed)
       IN  IF v = <<>>
           THEN UNCHANGED << state, controls >>
           ELSE /\ state' = [state EXCEPT !.whatsapp = v]
                /\ Show("stepConsole")
    /\ UNCHANGED << posted, server >>

\* stepConsole, btnNext.onclick
stepConsoleNext(sel, typed) ==
    /\ controls = "stepConsole"
    /\ LET v == IF sel = OtherConsole THEN trim(typed) ELSE sel
       IN  IF v = <<>>
           THEN UNCHANGED << state, controls >>
           ELSE /\ state' = [state EXCEPT !.console = v]
                /\ Show("stepDesignChoice")
    /\ UNCHANGED << posted, server >>

\* showCustomUpload, entered with the state s the click handler has set:
\* the upload step starts with one empty block.
showCustomUpload(s) ==
    /\ state' = [s EXCEPT
                    !.custom_blocks = << [file |-> NoFile, details |-> <<>>] >>]
    /\ Show("showCustomUpload")

\* state.design_choice = "custom"; state.has_design = "yes";
Custom(s) == [s EXCEPT !.design_choice = "custom", !.has_design = "yes"]

\* stepDesignChoice, btnView.onclick
stepDesignChoiceView ==
    /\ controls = "stepDesignChoice"
    /\ state' = [state EXCEPT !.design_choice = "view_designs",
                              !.gallery_page = 1]
    /\ Show("showGallery1")
    /\ UNCHANGED << posted, server >>

\* stepDesignChoice, btnCustom.onclick
stepDesignChoiceCustom ==
    /\ controls = "stepDesignChoice"
    /\ showCustomUpload(Custom(state))
    /\ UNCHANGED << posted, server >>

\* showGallery1, btnMore.onclick
showGallery1More ==
    /\ controls = "showGallery1"
    /\ state' = [state EXCEPT !.gallery_page = 2]
    /\ Show("showGallery2")
    /\ UNCHANGED << posted, server >>

\* showGallery1, btnSkip.onclick
showGallery1Skip ==
    /\ controls = "showGallery1"
    /\ showCustomUpload(Custom(state))
    /\ UNCHANGED << posted, server >>

\* showGallery2, btnCustomNow.onclick
showGallery2CustomNow ==
    /\ controls = "showGallery2"
    /\ showCustomUpload(Custom(state))
    /\ UNCHANGED << posted, server >>

\* btnAddImg.onclick: addImageBlock (at most MaxImages blocks here).
addImageBlock ==
    /\ controls = "showCustomUpload"
    /\ Len(state.custom_blocks) < MaxImages
    /\ state' = [state EXCEPT !.custom_blocks =
                    Append(@, [file |-> NoFile, details |-> <<>>])]
    /\ UNCHANGED << controls, posted, server >>

\* The visitor chooses, or clears, the file of block k.
chooseFile(k, f) ==
    /\ controls = "showCustomUpload"
    /\ k \in 1..Len(state.custom_blocks)
    /\ state' = [state EXCEPT !.custom_blocks[k].file = f]
    /\ UNCHANGED << controls, posted, server >>

\* The visitor types the details of block k.
typeDetails(k, d) ==
    /\ controls = "showCustomUpload"
    /\ k \in 1..Len(state.custom_blocks)
    /\ state' = [state EXCEPT !.custom_blocks[k].details = d]
    /\ UNCHANGED << controls, posted, server >>

\* The blocks with a file, in order: those whose file and trimmed details
\* submitLead appends to the FormData.
BlocksWithFile(b) == SelectSeq(b, LAMBDA x : x.file # NoFile)

AppendedImages(b) ==
    [k \in 1..Len(BlocksWithFile(b)) |-> BlocksWithFile(b)[k].file]

AppendedDetails(b) ==
    [k \in 1..Len(BlocksWithFile(b)) |-> trim(BlocksWithFile(b)[k].details)]

FormData ==
    [ name |-> state.name, email |-> state.email,
      whatsapp |-> state.whatsapp, console |-> state.console,
      design_choice |-> state.design_choice,
      has_design |-> state.has_design,
      images |-> IF state.has_design = "yes"
                 THEN AppendedImages(state.custom_blocks) ELSE <<>>,
      details |-> IF state.has_design = "yes"
                  THEN AppendedDetails(state.custom_blocks) ELSE <<>> ]

\* Mutant of submitLead: the form is posted also when no block has a file.
submitLeadWithoutFileCheck ==
    /\ controls = "showCustomUpload"
    /\ posted' = << FormData >>
    /\ UNCHANGED << state, controls, server >>

\* btnSubmit.onclick: submitLead.  With has_design "yes" and no file in any
\* block nothing is sent; otherwise the form is posted to /submit.
submitLead ==
    /\ controls = "showCustomUpload"
    /\ IF state.has_design = "yes" /\ FormData.images = <<>>
       THEN UNCHANGED posted
       ELSE posted' = << FormData >>
    /\ UNCHANGED << state, controls, server >>

\* The page alone: no request is being handled.
InitWizard == InitWith({}, Forms)

NextWizard ==
    \/ \E typed \in TypedNames : stepNameNext(typed)
    \/ \E typed \in TypedEmails : stepEmailNext(typed)
    \/ \E typed \in TypedPhones : stepWhatsAppNext(typed)
    \/ \E sel \in SelConsoleValues : \E typed \in TypedConsoles :
          stepConsoleNext(sel, typed)
    \/ stepDesignChoiceView
    \/ stepDesignChoiceCustom
    \/ showGallery1More
    \/ showGallery1Skip
    \/ showGallery2CustomNow
    \/ addImageBlock
    \/ \E k \in 1..MaxImages : \E f \in ChosenFiles \cup {NoFile} :
          chooseFile(k, f)
    \/ \E k \in 1..MaxImages : \E d \in TypedDetails : typeDetails(k, d)
    \/ submitLead

SpecWizard == InitWizard /\ [][NextWizard]_vars

InitInputs == InitWith({1}, InputForms)

\* The handler run on the forms of InputForms.
SpecInputs == InitInputs /\ [][Next]_vars

Spec == Init /\ [][Next]_vars

TypeOK ==
    /\ pc \in [Requests -> {"received", "insert_lead", "ingest", "upload",
                            "insert_image", "email", "done"}]
    /\ \A r \in Requests : resp[r].status \in {0, 200, 400, 500}

\* ------------------------------------------------------------------------
\* Vocabulary of the properties
\* ------------------------------------------------------------------------
\* The four field checks of lines 692-699 pass.
FieldsValid(f) ==
    /\ strip(f.name) # <<>>
    /\ _basic_email_ok(f.email)
    /\ _clean_phone(f.whatsapp) # <<>>
    /\ strip(f.console) # <<>>

\* Error classes of the taxonomy, by the detail of the response.
MissingRequiredField ==
    { "Nombre es obligatorio.", "WhatsApp es obligatorio.",
      "Consola es obligatoria.", "Debes subir al menos 1 imagen." }

InvalidFormat == { "Correo inválido." }

MismatchedDetailCount ==
    { "Cada imagen debe tener su detalle (mismo número).",
      "Cada imagen debe tener detalles (no vacío)." }

UnsupportedMediaType == { "Tipo de imagen no permitido." }

EmptyUpload == { "Una imagen viene vacía." }

PayloadTooLarge == { "Imagen supera el máximo permitido." }

MediaErrors == UnsupportedMediaType \cup EmptyUpload \cup PayloadTooLarge

ValidationErrors ==
    MissingRequiredField \cup InvalidFormat \cup MismatchedDetailCount
        \cup MediaErrors

LeadInsertFailures ==
    { "Internal Server Error", "Error insertando lead",
      "Supabase no devolvió el lead insertado." }

StoreEmpty == leads = {} /\ lead_images = {} /\ blobs = {}

LeadIds == { l.id : l \in leads }

LastCall(r) == calls[r][Len(calls[r])]

Made(r, op) == \E k \in 1..Len(calls[r]) : calls[r][k].op = op

EmailFailed(r) ==
    /\ calls[r] # <<>>
    /\ LastCall(r).op = "send_email"
    /\ ~LastCall(r).ok

\* The loop of request r has run its checks on image i.
Reached(r, i) ==
    /\ lead_id[r] # 0
    /\ has_design_bool(form[r])
    /\ \/ idx[r] > i
       \/ idx[r] = i /\ pc[r] \in {"upload", "insert_image", "done"}

\* Image i of request r passed the checks of the loop.
Accepted(r, i) ==
    /\ Reached(r, i)
    /\ ~(idx[r] = i /\ pc[r] = "done" /\ resp[r].detail \in MediaErrors)

\* ------------------------------------------------------------------------
\* C1
\* ------------------------------------------------------------------------
\* C1: a request that ends in a field-validation or media-validation error
\* (status 400) has performed no persistence side effect: it made no call
\* to the store and no lead row, blob or lead_images row exists.
C1_ValidationErrorLeavesNoState ==
    \A r \in Requests :
        (pc[r] = "done" /\ resp[r].detail \in ValidationErrors) =>
            /\ ~Made(r, "insert_lead")
            /\ StoreEmpty

\* ------------------------------------------------------------------------
\* C2
\* ------------------------------------------------------------------------
\* C2 as stated: every finished request with valid fields and a falsy
\* has_design answers ok with a lead id, with exactly one lead row and no
\* lead_images row.
C2_ValidPlainAlwaysSucceeds ==
    \A r \in Requests :
        (pc[r] = "done" /\ FieldsValid(form[r]) /\ ~has_design_bool(form[r])) =>
            /\ resp[r].status = 200
            /\ resp[r].lead_id \in LeadIds
            /\ Cardinality(leads) = 1
            /\ lead_images = {}

\* C2 amended: a request with valid fields and a falsy has_design never
\* creates a lead_images row or a blob and never more than one lead row; it
\* answers ok exactly when the lead insert and the email both succeed, and
\* then returns the id of the one lead row.
C2_ValidPlainSucceedsIfCallsDo ==
    \A r \in Requests :
        (FieldsValid(form[r]) /\ ~has_design_bool(form[r])) =>
            /\ lead_images = {} /\ blobs = {}
            /\ Cardinality(leads) <= 1
            /\ pc[r] # "done" => resp[r].status = 0
            /\ pc[r] = "done" =>
                 /\ resp[r].status = 200 <=>
                        calls[r] = << [op |-> "insert_lead", idx |-> 0, ok |-> TRUE],
                                      [op |-> "send_email", idx |-> 0, ok |-> TRUE] >>
                 /\ resp[r].status = 200 =>
                        /\ leads = { [id |-> resp[r].lead_id] @@ lead_data(form[r]) }
                        /\ resp[r].lead_id = lead_id[r]
                 /\ resp[r].status # 200 => resp[r].status = 500

\* C2 witness: a request with valid fields, a falsy has_design and
\* attachments has answered ok.
C2_Witness ==
    \E r \in Requests :
        /\ FieldsValid(form[r]) /\ ~has_design_bool(form[r])
        /\ form[r].images # <<>>
        /\ resp[r].status = 200
        /\ Cardinality(leads) = 1

\* ------------------------------------------------------------------------
\* C3
\* ------------------------------------------------------------------------
\* C3 as stated: every finished request with a truthy has_design and no
\* attachment fails with a 4xx error of the missing-required-field class
\* and creates no lead row and no lead_images row.
C3_NoImageIsMissingField ==
    \A r \in Requests :
        (pc[r] = "done" /\ has_design_bool(form[r]) /\ form[r].images = <<>>) =>
            /\ resp[r].status = 400
            /\ resp[r].detail \in MissingRequiredField
            /\ leads = {} /\ lead_images = {}

\* C3 amended: a request with a truthy has_design and no attachment fails
\* with a 4xx error and creates no lead row and no lead_images row; the
\* error is the missing-image error when name, email, phone and console
\* pass their checks, and otherwise the error of the first of these checks
\* that fails (the invalid-format error for the email).
C3_NoImageFails ==
    \A r \in Requests :
        (has_design_bool(form[r]) /\ form[r].images = <<>>) =>
            /\ pc[r] \in {"received", "done"}
            /\ calls[r] = <<>>
            /\ StoreEmpty
            /\ pc[r] = "done" =>
                 /\ resp[r].status = 400
                 /\ resp[r].detail \in MissingRequiredField \cup InvalidFormat
                 /\ FieldsValid(form[r]) =>
                        resp[r].detail = "Debes subir al menos 1 imagen."
                 /\ resp[r].detail \in InvalidFormat =>
                        ~_basic_email_ok(form[r].email)

\* C3 witness: a request with valid fields, a truthy has_design and no
\* attachment has been answered.
C3_Witness ==
    \E r \in Requests :
        /\ has_design_bool(form[r]) /\ form[r].images = <<>>
        /\ FieldsValid(form[r])
        /\ pc[r] = "done"
        /\ resp[r].detail = "Debes subir al menos 1 imagen."

\* ------------------------------------------------------------------------
\* C4
\* ------------------------------------------------------------------------
\* C4 as stated: when the email send fails after the lead was persisted,
\* the response still reports success and returns the lead id.
C4_EmailFailureStillOk ==
    \A r \in Requests :
        EmailFailed(r) =>
            /\ resp[r].status = 200
            /\ resp[r].lead_id = lead_id[r]

\* C4 amended: when the email send fails after the lead (and any images)
\* were persisted, submit answers with a 500 error whose detail says that
\* the lead was saved but the email failed; the response carries no lead
\* id, and the lead row is still in the store.
C4_EmailFailureIs500 ==
    \A r \in Requests :
        EmailFailed(r) =>
            /\ pc[r] = "done"
            /\ resp[r].status = 500
            /\ resp[r].detail = "Lead guardado pero falló el correo"
            /\ resp[r].lead_id = 0
            /\ lead_id[r] \in LeadIds

\* C4 witness: the email failed after a lead and an image were persisted.
C4_Witness ==
    \E r \in Requests :
        /\ EmailFailed(r)
        /\ lead_id[r] \in LeadIds
        /\ lead_images # {}

\* ------------------------------------------------------------------------
\* C5
\* ------------------------------------------------------------------------
\* C5: the step in which the email send of a request fails changes neither
\* the leads table nor the bucket nor the lead_images table, and the request
\* makes no call and takes no step after it.
C5_EmailFailureKeepsStore ==
    [][ \A r \in Requests :
          /\ (pc[r] = "email" /\ pc'[r] = "done" /\ resp'[r].status = 500) =>
                UNCHANGED store
          /\ EmailFailed(r) =>
                /\ calls'[r] = calls[r]
                /\ resp'[r] = resp[r]
                /\ pc'[r] = "done" ]_vars

\* C5 witness: the email failed with the lead, two blobs and two rows in
\* the store.
C5_Witness ==
    \E r \in Requests :
        /\ EmailFailed(r)
        /\ Cardinality(leads) = 1
        /\ Cardinality(blobs) = 2
        /\ Cardinality(lead_images) = 2

\* ------------------------------------------------------------------------
\* C6
\* ------------------------------------------------------------------------
\* C6: when creating the lead fails (the store rejects the insert, returns
\* no row, or is not configured), the request ends with a 5xx error and
\* makes no further call: no upload, no lead_images insert, no email.
C6_LeadFailureAborts ==
    \A r \in Requests :
        /\ (Made(r, "insert_lead") /\ ~calls[r][1].ok) =>
              /\ Len(calls[r]) = 1
              /\ pc[r] = "done"
              /\ resp[r].status = 500
              /\ resp[r].detail \in LeadInsertFailures
              /\ lead_id[r] = 0
              /\ blobs = {} /\ lead_images = {} /\ outbox = <<>>
        /\ resp[r].detail \in LeadInsertFailures =>
              /\ resp[r].status = 500
              /\ Len(calls[r]) <= 1
              /\ blobs = {} /\ lead_images = {} /\ outbox = <<>>

\* C6 witness: the lead insert of a custom-design request with valid
\* attachments was rejected.
C6_Witness ==
    \E r \in Requests :
        /\ calls[r] = << [op |-> "insert_lead", idx |-> 0, ok |-> FALSE] >>
        /\ has_design_bool(form[r])
        /\ form[r].images # <<>>
        /\ \A i \in 1..Len(form[r].images) : MediaError(form[r].images[i]) = ""
        /\ pc[r] = "done"

\* ------------------------------------------------------------------------
\* C7
\* ------------------------------------------------------------------------
\* C7: when the upload of image i is rejected, the request fails with 500;
\* the lead row and the blobs and rows of images 1..i-1 stay in the store,
\* image i gets no blob and no row, no later image is processed and no
\* email is attempted.
C7_UploadFailureAborts ==
    \A r \in Requests :
        (Made(r, "upload") /\ LastCall(r).op = "upload" /\ ~LastCall(r).ok) =>
            LET i == LastCall(r).idx
            IN  /\ pc[r] = "done"
                /\ resp[r].status = 500
                /\ resp[r].detail = "Error subiendo a Storage"
                /\ idx[r] = i
                /\ lead_id[r] \in LeadIds
                /\ Len(uploaded_rows[r]) = i - 1
                /\ \A j \in 1..(i - 1) :
                      /\ uploaded_rows[r][j] \in lead_images
                      /\ \E b \in blobs : b.path = uploaded_rows[r][j].storage_path
                /\ Cardinality(lead_images) = i - 1
                /\ Cardinality(blobs) = i - 1
                /\ \A k \in 1..Len(calls[r]) :
                      /\ calls[r][k].idx <= i
                      /\ calls[r][k].op # "send_email"
                      /\ calls[r][k].op = "insert_lead_image" => calls[r][k].idx < i
                /\ outbox = <<>>

\* C7 witness: the upload of the second image was rejected after the first
\* image was stored.
C7_Witness ==
    \E r \in Requests :
        /\ resp[r].detail = "Error subiendo a Storage"
        /\ idx[r] = 2
        /\ Cardinality(lead_images) = 1

\* ------------------------------------------------------------------------
\* C8
\* ------------------------------------------------------------------------
\* C8: an image whose content type (lower-cased, trimmed) is not allowed is
\* never uploaded, and once the loop has reached it the request has failed
\* with the unsupported-media-type error, whatever the size of the image:
\* also for size 0 and for sizes above the maximum.
C8_TypeErrorFirst ==
    /\ \A b \in blobs : b.content_type \in ALLOWED_IMAGE_TYPES
    /\ \A r \in Requests :
          \A i \in 1..Len(form[r].images) :
              (/\ calls[r] # <<>>
               /\ ContentTypeOf(form[r].images[i]) \notin ALLOWED_IMAGE_TYPES) =>
                  /\ \A k \in 1..Len(calls[r]) :
                        ~(calls[r][k].op = "upload" /\ calls[r][k].idx = i)
                  /\ Reached(r, i) =>
                        /\ pc[r] = "done" /\ idx[r] = i
                        /\ resp[r].status = 400
                        /\ resp[r].detail \in UnsupportedMediaType

\* C8 witness: the loop has reached an image of a type that is not allowed
\* and whose size is above the maximum.
C8_Witness ==
    \E r \in Requests :
        \E i \in 1..Len(form[r].images) :
            /\ ContentTypeOf(form[r].images[i]) \notin ALLOWED_IMAGE_TYPES
            /\ form[r].images[i].size > MAX_IMAGE_BYTES
            /\ Reached(r, i)

\* ------------------------------------------------------------------------
\* C9
\* ------------------------------------------------------------------------
\* C9: an image of an allowed type that the loop has reached is accepted
\* exactly when 1 <= size <= MAX_IMAGE_BYTES = 5242880; size 0 fails as an
\* empty upload and a size above the maximum as too large.
C9_SizeBoundary ==
    /\ MAX_IMAGE_BYTES = 5242880
    /\ \A r \in Requests :
        \A i \in 1..Len(form[r].images) :
            LET up == form[r].images[i]
            IN  (Reached(r, i) /\ ContentTypeOf(up) \in ALLOWED_IMAGE_TYPES) =>
                    /\ Accepted(r, i) <=> (1 <= up.size /\ up.size <= MAX_IMAGE_BYTES)
                    /\ up.size = 0 =>
                          resp[r].status = 400 /\ resp[r].detail \in EmptyUpload
                    /\ up.size > MAX_IMAGE_BYTES =>
                          resp[r].status = 400 /\ resp[r].detail \in PayloadTooLarge

\* C9 witness: an image of exactly MAX_IMAGE_BYTES bytes has been uploaded.
C9_Witness ==
    \E r \in Requests :
        \E i \in 1..Len(form[r].images) :
            /\ form[r].images[i].size = MAX_IMAGE_BYTES
            /\ Accepted(r, i)
            /\ \E b \in blobs : b.size = MAX_IMAGE_BYTES

\* ------------------------------------------------------------------------
\* C10
\* ------------------------------------------------------------------------
\* C10: every lead_images row carries the lead id that the lead insert of
\* its request returned, its storage path starts with that id, and the lead
\* row exists; every blob lies under the id of an existing lead; a request
\* uploads or inserts an image row only after its lead insert succeeded.
C10_ImagesBelongToLead ==
    /\ \A row \in lead_images :
          /\ row.lead_id \in LeadIds
          /\ row.storage_path[1] = row.lead_id
          /\ \E r \in Requests :
                /\ lead_id[r] = row.lead_id
                /\ \E j \in 1..Len(uploaded_rows[r]) : uploaded_rows[r][j] = row
    /\ \A b \in blobs :
          /\ b.path[1] \in LeadIds
          /\ \E r \in Requests : lead_id[r] = b.path[1]
    /\ \A r \in Requests :
          \A k \in 1..Len(calls[r]) :
              calls[r][k].op \in {"upload", "insert_lead_image"} =>
                  /\ k > 1
                  /\ calls[r][1] = [op |-> "insert_lead", idx |-> 0, ok |-> TRUE]

\* C10 witness: two image rows of one lead are in the store.
C10_Witness ==
    /\ Cardinality(lead_images) = 2
    /\ Cardinality(leads) = 1

\* ------------------------------------------------------------------------
\* C11
\* ------------------------------------------------------------------------
\* No operation is called twice for the same image by request r, and no
\* call follows a call that failed.
CallsOnce(r) ==
    /\ \A j, k \in 1..Len(calls[r]) :
          (calls[r][j].op = calls[r][k].op /\ calls[r][j].idx = calls[r][k].idx)
              => j = k
    /\ \A k \in 1..(Len(calls[r]) - 1) : calls[r][k].ok

\* C11: within one request every external call is made at most once and is
\* never retried after a failure (one lead insert, one upload and one row
\* insert per image, one email); a request that answers ok has created
\* exactly one lead row; and no step ever removes or changes a lead row, a
\* blob or a lead_images row.
C11_CallsOnceLeadOnce ==
    /\ [](\A r \in Requests :
            /\ CallsOnce(r)
            /\ resp[r].status = 200 =>
                  Cardinality({l \in leads : l.id = lead_id[r]}) = 1)
    /\ [][ /\ leads \subseteq leads'
           /\ Cardinality(leads') <= Cardinality(leads) + 1
           /\ blobs \subseteq blobs'
           /\ lead_images \subseteq lead_images' ]_vars

\* C11 witness: a request has answered ok after one lead insert, two
\* uploads, two row inserts and one email.
C11_Witness ==
    \E r \in Requests :
        /\ resp[r].status = 200
        /\ Len(calls[r]) = 6
        /\ Cardinality(leads) = 1

\* ------------------------------------------------------------------------
\* C12
\* ------------------------------------------------------------------------
\* The rows and blobs in the store that lie under the lead of request r.
RowsOf(r) == { row \in lead_images : row.lead_id = lead_id[r] }

BlobsOf(r) == { b \in blobs : b.path[1] = lead_id[r] }

\* C12: when submit answers ok, the lead_id of the response is the id of
\* the lead row this request inserted; with a truthy has_design each image
\* has, in submission order, exactly one uploaded blob and one lead_images
\* row (without it, none); and the email was sent without error, as the
\* last call of the request.
C12_SuccessMeansAllDone ==
    \A r \in Requests :
        resp[r].status = 200 =>
            LET n == IF has_design_bool(form[r]) THEN Len(form[r].images) ELSE 0
            IN  /\ pc[r] = "done"
                /\ resp[r].lead_id = lead_id[r]
                /\ ([id |-> resp[r].lead_id] @@ lead_data(form[r])) \in leads
                /\ calls[r][1] = [op |-> "insert_lead", idx |-> 0, ok |-> TRUE]
                /\ Len(calls[r]) = 2 * n + 2
                /\ LastCall(r) = [op |-> "send_email", idx |-> 0, ok |-> TRUE]
                /\ Len(uploaded_rows[r]) = n
                /\ Cardinality(RowsOf(r)) = n
                /\ Cardinality(BlobsOf(r)) = n
                /\ \A i \in 1..n :
                      LET row == uploaded_rows[r][i]
                          up == form[r].images[i]
                      IN  /\ calls[r][2 * i] = [op |-> "upload", idx |-> i, ok |-> TRUE]
                          /\ calls[r][2 * i + 1] =
                                [op |-> "insert_lead_image", idx |-> i, ok |-> TRUE]
                          /\ row \in RowsOf(r)
                          /\ row.content_type = ContentTypeOf(up)
                          /\ row.size_bytes = up.size
                          /\ \E b \in BlobsOf(r) :
                                /\ b.path = row.storage_path
                                /\ b.size = up.size
                          /\ \A j \in 1..n :
                                uploaded_rows[r][j].storage_path = row.storage_path
                                    => j = i
                /\ \E k \in 1..Len(outbox) : outbox[k].rows = uploaded_rows[r]

\* C12 witness: a custom-design request with two images has answered ok.
C12_Witness ==
    \E r \in Requests :
        /\ resp[r].status = 200
        /\ has_design_bool(form[r])
        /\ Len(form[r].images) = 2
        /\ form[r].images[1] # form[r].images[2]

\* ------------------------------------------------------------------------
\* C13
\* ------------------------------------------------------------------------
NonBlank(s) == \E k \in 1..Len(s) : s[k] \notin Whitespace

\* C13: a custom-design request whose number of details differs from its
\* number of images fails with a 4xx error before any call to the store, so
\* no lead is created; and every lead_images row carries a non-blank detail
\* that is the trimmed detail at the index of its image.
C13_DetailPerImage ==
    /\ \A r \in Requests :
          /\ (has_design_bool(form[r])
                  /\ Len(form[r].details) # Len(form[r].images)) =>
                /\ pc[r] \in {"received", "done"}
                /\ calls[r] = <<>>
                /\ lead_id[r] = 0
                /\ Cardinality(Requests) = 1 => StoreEmpty
                /\ pc[r] = "done" => resp[r].status = 400
          /\ \A j \in 1..Len(uploaded_rows[r]) :
                /\ uploaded_rows[r][j].details = strip(form[r].details[j])
                /\ NonBlank(form[r].details[j])
    /\ \A row \in lead_images :
          /\ NonBlank(row.details)
          /\ row.details[1] \notin Whitespace
          /\ row.details[Len(row.details)] \notin Whitespace
          /\ \E r \in Requests :
                \E j \in 1..Len(uploaded_rows[r]) : uploaded_rows[r][j] = row

\* C13 witness: a row is stored whose detail was trimmed.
C13_Witness ==
    \E r \in Requests :
        \E j \in 1..Len(uploaded_rows[r]) :
            /\ uploaded_rows[r][j] \in lead_images
            /\ uploaded_rows[r][j].details # form[r].details[j]

\* ------------------------------------------------------------------------
\* C15
\* ------------------------------------------------------------------------
RowInsertFailed(r) ==
    \E k \in 1..Len(calls[r]) :
        calls[r][k].op = "insert_lead_image" /\ ~calls[r][k].ok

\* C15 as stated: a failed insert of a lead_images row does not abort the
\* submission: a request that has finished after such a failure went on to
\* the notification step.
C15_RowFailureContinues ==
    \A r \in Requests :
        (RowInsertFailed(r) /\ pc[r] = "done") => Made(r, "send_email")

\* C15 amended: a failed insert of the lead_images row of image i aborts
\* the submission with a 500 error: it is the last call of the request, no
\* later image is processed and no email is attempted; the lead, the rows
\* of images 1..i-1 and the blobs of images 1..i stay in the store.
C15_RowFailureAborts ==
    \A r \in Requests :
        RowInsertFailed(r) =>
            LET i == LastCall(r).idx
            IN  /\ LastCall(r).op = "insert_lead_image" /\ ~LastCall(r).ok
                /\ pc[r] = "done"
                /\ resp[r].status = 500
                /\ resp[r].detail = "Error insertando lead_image"
                /\ resp[r].lead_id = 0
                /\ idx[r] = i
                /\ ~Made(r, "send_email")
                /\ \A k \in 1..Len(calls[r]) : calls[r][k].idx <= i
                /\ lead_id[r] \in LeadIds
                /\ Len(uploaded_rows[r]) = i - 1
                /\ Cardinality(RowsOf(r)) = i - 1
                /\ Cardinality(BlobsOf(r)) = i
                /\ Cardinality(Requests) = 1 => outbox = <<>>

\* C15 witness: the row insert of the second image failed after the first
\* image was stored.
C15_Witness ==
    \E r \in Requests :
        /\ RowInsertFailed(r)
        /\ idx[r] = 2
        /\ Cardinality(RowsOf(r)) = 1
        /\ Cardinality(BlobsOf(r)) = 2

\* ------------------------------------------------------------------------
\* C16
\* ------------------------------------------------------------------------
\* The checks before the lead insert, in the order claimed: whether form f
\* violates the check, and the detail of its error.
FieldChecks(f) ==
    << [bad |-> ~NonBlank(f.name), detail |-> "Nombre es obligatorio."],
       [bad |-> ~_basic_email_ok(f.email), detail |-> "Correo inválido."],
       [bad |-> _clean_phone(f.whatsapp) = <<>>,
        detail |-> "WhatsApp es obligatorio."],
       [bad |-> ~NonBlank(f.console), detail |-> "Consola es obligatoria."],
       [bad |-> has_design_bool(f) /\ Len(f.images) = 0,
        detail |-> "Debes subir al menos 1 imagen."],
       [bad |-> has_design_bool(f) /\ Len(f.details) # Len(f.images),
        detail |-> "Cada imagen debe tener su detalle (mismo número)."],
       [bad |-> has_design_bool(f)
                  /\ \E k \in 1..Len(f.details) : ~NonBlank(f.details[k]),
        detail |-> "Cada imagen debe tener detalles (no vacío)."] >>

Violated(f) ==
    LET checks == FieldChecks(f)
    IN  { k \in 1..Len(checks) : checks[k].bad }

FieldDetails(f) ==
    { "Nombre es obligatorio.", "Correo inválido.",
      "WhatsApp es obligatorio.", "Consola es obligatoria.",
      "Debes subir al menos 1 imagen.",
      "Cada imagen debe tener su detalle (mismo número).",
      "Cada imagen debe tener detalles (no vacío)." }

\* C16: once the fields of a request have been validated, a form that
\* violates one or more of the checks name, email, phone, console, at least
\* one image, one detail per image, no blank detail has been answered 400
\* with the error of the first check, in this order, that it violates, and
\* no call was made; a form that violates none gets none of these errors.
C16_FirstViolationReported ==
    \A r \in Requests :
        pc[r] # "received" =>
            LET checks == FieldChecks(form[r])
                bad == { k \in 1..Len(checks) : checks[k].bad }
            IN  IF bad # {}
                THEN /\ pc[r] = "done"
                     /\ resp[r].status = 400
                     /\ resp[r].detail =
                           checks[CHOOSE k \in bad :
                                    \A j \in bad : k <= j].detail
                     /\ calls[r] = <<>>
                ELSE resp[r].detail \notin FieldDetails(form[r])

\* C16 witness: a request that violates three of the checks at once has
\* been answered.
C16_Witness ==
    \E r \in Requests :
        /\ pc[r] = "done"
        /\ Cardinality(Violated(form[r])) >= 3
        /\ 1 \notin Violated(form[r])

\* ------------------------------------------------------------------------
\* C20
\* ------------------------------------------------------------------------
\* The steps a request may take from one position of the handler to the
\* next: forward only, "done" (response sent) from any step.
ForwardSteps ==
    { <<"received", "insert_lead">>, <<"insert_lead", "ingest">>,
      <<"ingest", "upload">>, <<"upload", "insert_image">>,
      <<"insert_image", "ingest">>, <<"ingest", "email">>,
      <<"received", "done">>, <<"insert_lead", "done">>, <<"ingest", "done">>,
      <<"upload", "done">>, <<"insert_image", "done">>, <<"email", "done">> }

\* The calls of request r so far are a prefix of: lead insert, then for
\* each image in order its upload and its row insert, then the email; every
\* call but the last succeeded; and they were made after the validation.
CallsInOrder(r) ==
    /\ calls[r] # <<>> => Violated(form[r]) = {}
    /\ \A k \in 1..Len(calls[r]) :
          LET c == calls[r][k]
          IN  IF k = 1 THEN c.op = "insert_lead"
              ELSE LET prev == calls[r][k - 1]
                   IN  /\ prev.ok
                       /\ c.op \in {"upload", "insert_lead_image", "send_email"}
                       /\ c.op = "upload" =>
                             IF c.idx = 1 THEN prev.op = "insert_lead"
                             ELSE prev = [op |-> "insert_lead_image",
                                          idx |-> c.idx - 1, ok |-> TRUE]
                       /\ c.op = "insert_lead_image" =>
                             prev = [op |-> "upload", idx |-> c.idx, ok |-> TRUE]
                       /\ c.op = "send_email" =>
                             IF has_design_bool(form[r])
                             THEN prev = [op |-> "insert_lead_image",
                                          idx |-> Len(form[r].images), ok |-> TRUE]
                             ELSE prev.op = "insert_lead"

\* C20: a request moves through the handler only forward: validate, lead
\* insert, then for each image in submission order its upload followed by
\* its row insert, then the email, then the success response; it may end
\* with an error at any step, takes no step after its response, never goes
\* back to an earlier image, and makes its calls in that order.
C20_ForwardOrder ==
    /\ [](\A r \in Requests :
            /\ CallsInOrder(r)
            /\ resp[r].status # 0 <=> pc[r] = "done")
    /\ [][ \A r \in Requests :
             /\ pc'[r] # pc[r] => << pc[r], pc'[r] >> \in ForwardSteps
             /\ idx'[r] >= idx[r]
             /\ idx'[r] # idx[r] => (pc[r] = "insert_image" /\ idx'[r] = idx[r] + 1)
             /\ pc[r] = "done" =>
                   (calls'[r] = calls[r] /\ resp'[r] = resp[r]) ]_vars

\* C20 witness: a request is about to send the email after the uploads and
\* row inserts of two images.
C20_Witness ==
    \E r \in Requests :
        /\ pc[r] = "email"
        /\ Len(calls[r]) = 5
        /\ idx[r] = 3

\* ------------------------------------------------------------------------
\* C17
\* ------------------------------------------------------------------------
ClaimedTruthy ==
    { <<"1">>, <<"t","r","u","e">>, <<"y","e","s">>, <<"s","i">>,
      <<"s","í">>, <<"y">> }

CasePairs ==
    { <<"T","t">>, <<"R","r">>, <<"U","u">>, <<"E","e">>, <<"Y","y">>,
      <<"S","s">>, <<"I","i">>, <<"Í","í">> }

\* s is token t, in any letter case, between leading and trailing whitespace.
IsToken(s, t) ==
    \E a \in 0..Len(s) :
        /\ a + Len(t) <= Len(s)
        /\ \A k \in 1..a : s[k] \in Whitespace
        /\ \A k \in (a + Len(t) + 1)..Len(s) : s[k] \in Whitespace
        /\ \A k \in 1..Len(t) : s[a + k] = t[k] \/ << s[a + k], t[k] >> \in CasePairs

IsTruthyText(s) == \E t \in ClaimedTruthy : IsToken(s, t)

LeadRowOf(r) == CHOOSE l \in leads : l.id = lead_id[r]

\* C17: has_design parses to true exactly when its trimmed, lower-cased
\* value is one of 1, true, yes, si, sí, y, and to false otherwise (also for
\* the empty text): the lead row stores that value, images are uploaded only
\* for a true flag, and a false flag alone never makes a request with valid
\* fields fail validation.
C17_TruthyTokens ==
    \A r \in Requests :
        LET t == IsTruthyText(form[r].has_design)
        IN  /\ has_design_bool(form[r]) <=> t
            /\ lead_id[r] # 0 => (LeadRowOf(r).has_design <=> t)
            /\ Made(r, "upload") => t
            /\ (~t /\ FieldsValid(form[r])) =>
                  /\ resp[r].status # 400
                  /\ ~Made(r, "upload") /\ ~Made(r, "insert_lead_image")

\* C17 witness: a lead is stored with has_design true for a flag that is a
\* token only after trimming and lower-casing.
C17_Witness ==
    \E r \in Requests :
        /\ lead_id[r] # 0
        /\ LeadRowOf(r).has_design
        /\ form[r].has_design \notin ClaimedTruthy
        /\ form[r].has_design[1] \in Whitespace

\* ------------------------------------------------------------------------
\* C18
\* ------------------------------------------------------------------------
KeptInPhone == Digits \cup {"+", "(", ")", " ", "\t", "\n"}

IsKeptInPhone(c) == c \in KeptInPhone

\* The characters of s that are kept, between its first and its last
\* character that is not whitespace.
NormalizedPhone(s) ==
    LET inner == { k \in 1..Len(s) : s[k] \notin Whitespace }
        first == CHOOSE a \in inner : \A k \in inner : a <= k
        last == CHOOSE b \in inner : \A k \in inner : k <= b
    IN  IF inner = {} THEN <<>>
        ELSE SelectSeq(SubSeq(s, first, last), IsKeptInPhone)

\* C18: the phone is normalized by removing every character that is not a
\* digit, "+", whitespace or a parenthesis (after trimming); a request whose
\* name and email pass their checks fails with "WhatsApp es obligatorio."
\* exactly when the normalized phone is empty, and otherwise the phone in
\* the lead row is the normalized phone and is not empty.
C18_PhoneNormalized ==
    \A r \in Requests :
        LET f == form[r]
            phone == NormalizedPhone(f.whatsapp)
        IN  /\ \A k \in 1..Len(phone) : phone[k] \in KeptInPhone
            /\ (pc[r] # "received" /\ NonBlank(f.name) /\ _basic_email_ok(f.email)) =>
                  /\ resp[r].detail = "WhatsApp es obligatorio." <=> phone = <<>>
                  /\ phone = <<>> =>
                        /\ pc[r] = "done" /\ resp[r].status = 400
                        /\ calls[r] = <<>>
            /\ resp[r].detail = "WhatsApp es obligatorio." =>
                  resp[r].detail \in MissingRequiredField /\ phone = <<>>
            /\ lead_id[r] # 0 =>
                  /\ LeadRowOf(r).whatsapp = phone
                  /\ phone # <<>>

\* C18 witness: a lead is stored whose phone lost characters in the
\* normalization.
C18_Witness ==
    \E r \in Requests :
        /\ lead_id[r] # 0
        /\ LeadRowOf(r).whatsapp # form[r].whatsapp
        /\ \E k \in 1..Len(form[r].whatsapp) : form[r].whatsapp[k] \notin KeptInPhone
        /\ Len(LeadRowOf(r).whatsapp) >= 2

\* ------------------------------------------------------------------------
\* C14
\* ------------------------------------------------------------------------
OkCalls(r, op) ==
    { k \in 1..Len(calls[r]) : calls[r][k].op = op /\ calls[r][k].ok }

\* The response of request r is the one its own form and the results of
\* its own calls determine.
ResponseFits(r) ==
    LET f == form[r]
        bad == Violated(f)
        c == LastCall(r)
        next == IF c.op = "insert_lead" THEN 1 ELSE c.idx + 1
    IN  IF bad # {}
        THEN /\ resp[r].status = 400
             /\ resp[r].detail =
                   FieldChecks(f)[CHOOSE k \in bad : \A j \in bad : k <= j].detail
        ELSE IF calls[r] = <<>>
        THEN resp[r].status = 500 /\ resp[r].detail = "Internal Server Error"
        ELSE IF ~c.ok
        THEN /\ resp[r].status = 500
             /\ c.op = "insert_lead" =>
                   resp[r].detail \in LeadInsertFailures \ {"Internal Server Error"}
             /\ c.op = "upload" => resp[r].detail = "Error subiendo a Storage"
             /\ c.op = "insert_lead_image" =>
                   resp[r].detail = "Error insertando lead_image"
             /\ c.op = "send_email" =>
                   resp[r].detail = "Lead guardado pero falló el correo"
        ELSE IF c.op = "send_email"
        THEN resp[r].status = 200 /\ resp[r].lead_id = lead_id[r]
        ELSE /\ has_design_bool(f) /\ next <= Len(f.images)
             /\ resp[r].status = 400
             /\ resp[r].detail = MediaError(f.images[next])
             /\ resp[r].detail \in MediaErrors

\* What request r has in the store is what its own successful calls put
\* there, all of it under its own lead.
StoreFits(r) ==
    /\ lead_id[r] # 0 <=> OkCalls(r, "insert_lead") # {}
    /\ lead_id[r] # 0 =>
          ([id |-> lead_id[r]] @@ lead_data(form[r])) \in leads
    /\ Cardinality(BlobsOf(r)) = Cardinality(OkCalls(r, "upload"))
    /\ Cardinality(RowsOf(r)) = Cardinality(OkCalls(r, "insert_lead_image"))
    /\ RowsOf(r) = { uploaded_rows[r][j] : j \in 1..Len(uploaded_rows[r]) }
    /\ \A row \in RowsOf(r) : row.storage_path[1] = lead_id[r]
    /\ lead_id[r] = 0 => uploaded_rows[r] = <<>>

\* C14: in every interleaving of two submissions, each request's calls are
\* in the order and each response is the one its own form and the results
\* of its own calls determine, as when it runs alone; the leads of the two
\* requests differ and every row and blob lies under the lead of exactly
\* the request that created it, at a path of its own; and a step of one
\* request changes nothing of the other request and only adds to the store.
C14_RequestsIndependent ==
    /\ [](/\ \A r \in Requests :
                /\ CallsInOrder(r)
                /\ CallsOnce(r)
                /\ StoreFits(r)
                /\ pc[r] = "done" => ResponseFits(r)
          /\ \A r1, r2 \in Requests :
                (r1 # r2 /\ lead_id[r1] # 0) => lead_id[r1] # lead_id[r2]
          /\ \A row \in lead_images : \E r \in Requests : row \in RowsOf(r)
          /\ \A b \in blobs : \E r \in Requests : b \in BlobsOf(r)
          /\ \A b1, b2 \in blobs : b1.path = b2.path => b1 = b2
          /\ \A x, y \in lead_images : x.storage_path = y.storage_path => x = y)
    /\ [][ \E r \in Requests :
             /\ \A q \in Requests \ {r} :
                   /\ pc'[q] = pc[q] /\ resp'[q] = resp[q]
                   /\ lead_id'[q] = lead_id[q] /\ idx'[q] = idx[q]
                   /\ uploaded_rows'[q] = uploaded_rows[q]
                   /\ calls'[q] = calls[q]
                   /\ { row \in lead_images' : row.lead_id = lead_id[q] }
                         = RowsOf(q)
                   /\ { b \in blobs' : b.path[1] = lead_id[q] } = BlobsOf(q)
             /\ form' = form
             /\ leads \subseteq leads'
             /\ lead_images \subseteq lead_images'
             /\ blobs \subseteq blobs' ]_vars

\* C14 witness: both requests have answered ok, with three images between
\* them, and the request that came first got the second lead id.
C14_Witness ==
    /\ Cardinality(Requests) = 2
    /\ \A r \in Requests : resp[r].status = 200
    /\ Cardinality(lead_images) = 3
    /\ lead_id[1] = 2
    /\ \E x, y \in RowsOf(1) : x.storage_path[2] + 1 < y.storage_path[2]

\* ------------------------------------------------------------------------
\* C19
\* ------------------------------------------------------------------------
\* C19: an order that selects a combo of the catalog whose eligibility set
\* is present and does not contain the order's console fails with
\* IneligibleCombo; a combo of the catalog without an eligibility set is
\* priced for every console, at its price plus the add-on when selected.
C19_IneligibleCombo ==
    \A r \in Requests :
        pc[r] = "done" =>
            \A c \in ComboCatalog :
                c.id = form[r].combo =>
                    /\ (c.eligible # {} /\ form[r].console \notin c.eligible) =>
                          /\ resp[r].status = 400
                          /\ resp[r].detail = "IneligibleCombo"
                    /\ c.eligible = {} =>
                          /\ resp[r].status = 200
                          /\ resp[r].total \in {c.price, c.price + EXTRA_CONTROL_ADDON}
                          /\ resp[r].total = c.price <=> ~form[r].extra

\* C19 witness: combo c6 was refused for console "Xbox One".
C19_Witness ==
    \E r \in Requests :
        /\ pc[r] = "done"
        /\ form[r].combo = "c6"
        /\ form[r].console = "Xbox One"
        /\ resp[r].detail = "IneligibleCombo"

\* ------------------------------------------------------------------------
\* C21
\* ------------------------------------------------------------------------
\* The blob has no lead_images row at its path.
Orphan(b) == ~\E row \in lead_images : row.storage_path = b.path

\* Request r uploaded image i successfully and inserted its row right after.
UploadedThenInserted(r, i) ==
    \E k \in 1..(Len(calls[r]) - 1) :
        /\ calls[r][k] = [op |-> "upload", idx |-> i, ok |-> TRUE]
        /\ calls[r][k + 1] = [op |-> "insert_lead_image", idx |-> i, ok |-> TRUE]

\* Every row is the row of an image of one request that uploaded the image
\* successfully before inserting the row, and the blob is in the bucket at
\* exactly the row's storage_path.
RowsHaveBlobs ==
    \A row \in lead_images :
        /\ \E b \in blobs :
              /\ b.path = row.storage_path
              /\ b.content_type = row.content_type
              /\ b.size = row.size_bytes
        /\ \E r \in Requests :
              \E i \in 1..Len(uploaded_rows[r]) :
                  /\ uploaded_rows[r][i] = row
                  /\ row.lead_id = lead_id[r]
                  /\ UploadedThenInserted(r, i)

\* C21 as stated: every lead_images row has its blob at exactly the row's
\* storage_path, and a blob without a row exists only when the row insert of
\* its attachment failed.
C21_OrphanOnlyAfterRowFailure ==
    /\ RowsHaveBlobs
    /\ \A b \in blobs :
          Orphan(b) => \E r \in Requests : b.path = path[r] /\ RowInsertFailed(r)

\* C21 amended: every lead_images row has a blob that the same request
\* uploaded successfully before the row insert, at exactly the row's
\* storage_path, and the blob was in the bucket when the row was inserted;
\* neither blobs nor rows are ever removed; a blob without a row is the blob
\* of the attachment its request uploaded last, and the row insert of that
\* attachment is either still to come (the request is between the upload
\* and the row insert) or has failed, the latter once the request is
\* answered.
C21_RowsPointToBlobs ==
    /\ [](/\ RowsHaveBlobs
          /\ \A b \in blobs :
                Orphan(b) =>
                    \E r \in Requests :
                        /\ b.path = path[r]
                        /\ b.path[1] = lead_id[r]
                        /\ LastCall(r).idx = idx[r]
                        /\ \/ /\ pc[r] = "insert_image"
                              /\ LastCall(r) =
                                   [op |-> "upload", idx |-> idx[r], ok |-> TRUE]
                           \/ /\ pc[r] = "done"
                              /\ LastCall(r) =
                                   [op |-> "insert_lead_image", idx |-> idx[r],
                                    ok |-> FALSE])
    /\ [][/\ blobs \subseteq blobs'
          /\ lead_images \subseteq lead_images'
          /\ \A row \in lead_images' \ lead_images :
                \E b \in blobs : b.path = row.storage_path]_vars

\* C21 witness: a request has stored the row and the blob of its first
\* image, and the blob of its second image is in the bucket without a row
\* because the row insert of the second image failed.
C21_Witness ==
    \E r \in Requests :
        /\ pc[r] = "done"
        /\ RowInsertFailed(r)
        /\ \E row \in lead_images : \E b \in blobs : b.path = row.storage_path
        /\ \E b \in blobs : Orphan(b) /\ b.path = path[r]

\* ------------------------------------------------------------------------
\* C22
\* ------------------------------------------------------------------------
\* The form without its attachments and detail notes.
WithoutAttachments(f) == [f EXCEPT !.images = <<>>, !.details = <<>>]

\* The form carries something the checks on images and details, or the
\* checks of the loop, would refuse for a truthy flag.
BadAttachments(f) ==
    \/ Len(f.details) # Len(f.images)
    \/ \E k \in 1..Len(f.details) : strip(f.details[k]) = <<>>
    \/ \E k \in 1..Len(f.images) : MediaError(f.images[k]) # ""

\* C22: for a request whose has_design flag is falsy, the attachments and
\* detail notes are ignored: a 400 answer is the one the same form without
\* them gets (never one about count, blank detail, content type or size),
\* the request never reaches the upload or the row insert and calls neither,
\* no blob and no lead_images row carries its lead id, the email lists no
\* image, the lead row it stores has has_design false, and none of its
\* steps changes the bucket or the table lead_images.
C22_FalsyFlagIgnoresAttachments ==
    /\ [](\A r \in Requests :
            ~has_design_bool(form[r]) =>
                /\ pc[r] \notin {"upload", "insert_image"}
                /\ ~Made(r, "upload")
                /\ ~Made(r, "insert_lead_image")
                /\ idx[r] = 1
                /\ uploaded_rows[r] = <<>>
                /\ resp[r].detail \notin
                       MismatchedDetailCount \cup MediaErrors
                         \cup {"Debes subir al menos 1 imagen."}
                /\ resp[r].status = 400 =>
                       resp[r].detail =
                           ValidationError(WithoutAttachments(form[r]))
                /\ (pc[r] # "received" /\ resp[r].status # 400) =>
                       ValidationError(WithoutAttachments(form[r])) = ""
                /\ lead_id[r] # 0 =>
                       /\ RowsOf(r) = {}
                       /\ BlobsOf(r) = {}
                       /\ LeadRowOf(r) =
                            [id |-> lead_id[r]]
                              @@ lead_data(WithoutAttachments(form[r]))
                       /\ LeadRowOf(r).has_design = FALSE
                /\ resp[r].status = 200 =>
                       /\ lead_id[r] # 0
                       /\ \E k \in 1..Len(outbox) :
                              outbox[k] = [ name |-> strip(form[r].name),
                                            console |-> strip(form[r].console),
                                            rows |-> <<>> ])
    /\ [][\A r \in Requests :
            (~has_design_bool(form[r]) /\ pc'[r] # pc[r]) =>
                /\ blobs' = blobs
                /\ lead_images' = lead_images]_vars

\* C22 witness: a request with a falsy flag that carries attachments and
\* detail notes which a truthy flag would get refused was answered ok, and
\* its lead is stored with has_design false.
C22_Witness ==
    \E r \in Requests :
        /\ ~has_design_bool(form[r])
        /\ Len(form[r].images) > 0
        /\ Len(form[r].details) > 0
        /\ BadAttachments(form[r])
        /\ resp[r].status = 200
        /\ LeadRowOf(r).has_design = FALSE
        /\ RowsOf(r) = {} /\ BlobsOf(r) = {}

\* ------------------------------------------------------------------------
\* C23
\* ------------------------------------------------------------------------
\* The advances of the wizard as the claim lists them: the gallery is either
\* not visited, or both of its pages are.
ClaimedAdvances ==
    { << "stepName", "stepEmail" >>, << "stepEmail", "stepWhatsApp" >>,
      << "stepWhatsApp", "stepConsole" >>,
      << "stepConsole", "stepDesignChoice" >>,
      << "stepDesignChoice", "showCustomUpload" >>,
      << "stepDesignChoice", "showGallery1" >>,
      << "showGallery1", "showGallery2" >>,
      << "showGallery2", "showCustomUpload" >> }

\* The advance the claim leaves out: from the first page of the gallery
\* straight to the upload.
SkipAdvance == << "showGallery1", "showCustomUpload" >>

\* A change of step is one of the advances, and the steps that ask for a
\* value are left only with that value stored trimmed and non-empty (the
\* email with an "@").
AdvancesBy(advances) ==
    controls' # controls =>
        /\ << controls, controls' >> \in advances
        /\ posted' = posted
        /\ controls = "stepName" =>
              state'.name # <<>> /\ state'.name = trim(state'.name)
        /\ controls = "stepEmail" =>
              /\ state'.email # <<>> /\ state'.email = trim(state'.email)
              /\ includes(state'.email, "@")
        /\ controls = "stepWhatsApp" =>
              /\ state'.whatsapp # <<>>
              /\ state'.whatsapp = trim(state'.whatsapp)
        /\ controls = "stepConsole" => state'.console # <<>>

\* A form is posted only from the upload step, and the step stays.
PostedFromUpload ==
    posted' # posted =>
        /\ controls = "showCustomUpload"
        /\ controls' = controls
        /\ state' = state
        /\ posted' = << FormData >>

\* The form posted last has all four fields non-empty, is a custom design
\* with has_design "yes", has at least one file and one detail note for
\* each file.
PostedWellFormed ==
    \A k \in 1..Len(posted) :
        /\ posted[k].name # <<>>
        /\ posted[k].email # <<>>
        /\ posted[k].whatsapp # <<>>
        /\ posted[k].console # <<>>
        /\ posted[k].design_choice = "custom"
        /\ posted[k].has_design = "yes"
        /\ Len(posted[k].images) >= 1
        /\ NoFile \notin { posted[k].images[i] : i \in 1..Len(posted[k].images) }
        /\ Len(posted[k].details) = Len(posted[k].images)

\* C23 as stated: the steps advance only in the order name, email,
\* whatsapp, console, design choice, then either both gallery pages or
\* none, then the upload, each on a non-empty valid input; a form is posted
\* only from the upload step and only well formed.
C23_GalleryBothPagesOrNone ==
    /\ [][AdvancesBy(ClaimedAdvances) /\ PostedFromUpload]_vars
    /\ []PostedWellFormed

\* C23 amended: as stated, but the gallery part of the order is: none of
\* its pages, the first page only, or the first and then the second.
C23_WizardOrder ==
    /\ [][AdvancesBy(ClaimedAdvances \cup {SkipAdvance})
            /\ PostedFromUpload]_vars
    /\ []PostedWellFormed

\* C23 witness: after the first page of the gallery only, a form with two
\* files and their two detail notes was posted from the upload step.
C23_Witness ==
    /\ controls = "showCustomUpload"
    /\ state.gallery_page = 1
    /\ posted = << FormData >>
    /\ Len(posted[1].images) = 2
    /\ Len(posted[1].details) = 2

====
